---- MODULE Spec2Model ----
(***************************************************************************)
(* Verification model of the ferrisfetch daemon: the add-crates ingestion  *)
(* pipeline (version cache, catalog check, singleflight, fetch, item       *)
(* rewrite, embedding, processed mark), the SQLite catalog with its HNSW   *)
(* index and index file, search, the idle timer and the daemon's start /   *)
(* stop cycle.                                                             *)
(***************************************************************************)
EXTENDS Integers, Sequences, FiniteSets, TLC

(***************************************************************************)
(* Bounds of the model.                                                    *)
(***************************************************************************)
\* concurrent request handlers (net/http serves each connection on its own goroutine)
NumHandlers == 2
\* injected failures per run (fetch, CAS write, item insert, embedder, kill)
MaxFaults == 1
\* process starts after the first
MaxRestarts == 1
\* rows the Embeddings table may hold
MaxEmbeddings == 4
\* requests (add-crates specs, searches, clear-cache) received in a run
MaxRequests == 2

\* similarity levels of a query to a content hash
MaxSim == 2
\* the content hashes of a backlink graph
MaxNodes == 5
\* the direct hits of a search with few hits
MaxHits == 2
\* the use items of a module tree given to CollectReexports
MaxUses == 1
\* the blocks of a markdown body given to ChunkSections
MaxBlocks == 3
\* the largest limit of a search request
MaxLimit == 2
\* the names of a get-doc path after the crate's name
MaxSegments == 2

\* Server.expiration counted in clock ticks
ExpirationTicks == 1

Procs == 1..NumHandlers

(***************************************************************************)
(* The upstream registry: what docs.rs serves and what docs.Parse yields.  *)
(***************************************************************************)
Names == {"a", "b"}
Versions == {"v1"}
Rows == Names \X Versions
Hashes == {"h1", "h2"}

NoReq == [name |-> "", ver |-> ""]
\* the CrateSpecs clients send (an omitted version is "latest")
Requests == {[name |-> "a", ver |-> "latest"],
             [name |-> "a", ver |-> "v1"],
             [name |-> "b", ver |-> "v1"]}

\* RustdocCrate.CrateVersion of the payload served for name@version
CrateVersion(name, version) == "v1"

\* the markdown bodies of the items
Contents == {"d1", "d2"}
\* sha256.Sum256 in hex, on the bodies
Sum256(content) == IF content = "d1" THEN "h1" ELSE "h2"

\* docs.Parse: the parsed items of a crate; docs is the item's body. Crates
\* a and b share the body d1. An item without an entry in the paths map (an
\* associated function) has its name as path: a's two items are two "new".
Parse(name) ==
    IF name = "a"
    THEN << [rid |-> 1, path |-> "new", docs |-> "d1"],
            [rid |-> 2, path |-> "new", docs |-> "d2"] >>
    ELSE << [rid |-> 1, path |-> "b::T", docs |-> "d1"] >>

\* docs.CollectReexports: the local prefixes re-exported by a crate
\* Rust paths are strings, written here as sequences of characters
Sep == <<":", ":">>
\* the module and item names of the paths
Segments == {<<"p", "_", "q">>, <<"p", "x", "q">>, <<"r">>, <<"R">>}

\* RustdocCrate.ExternalCrateName: the name of an entry of external_crates,
\* "" for an id that is not in the table
ExternalCrateName(crateID) ==
    IF crateID = 1 THEN "b" ELSE IF crateID = 2 THEN "a" ELSE ""

\* A use item met by walkModuleReexports is written as a record: module is
\* the path of the module it is in, name the name it gives, crateID and path
\* the summary of its target in the paths map (inPaths is FALSE for a target
\* that is not there).

\* walkModuleReexports without the test for a glob of the module itself
ReexportsOfSelfGlob(crateName, use) ==
    LET sourceCrate == IF use.crateID = 0 THEN crateName
                       ELSE ExternalCrateName(use.crateID)
        localPath == use.module \o Sep \o use.name
    IN IF ~use.inPaths \/ sourceCrate = "" THEN {}
       ELSE IF use.isGlob
            THEN {[local |-> use.module, srcCrate |-> sourceCrate,
                   srcPrefix |-> use.path]}
       ELSE IF localPath = use.path /\ sourceCrate = crateName THEN {}
            ELSE {[local |-> localPath, srcCrate |-> sourceCrate,
                   srcPrefix |-> use.path]}

\* walkModuleReexports, one use item: the Reexport it appends, if any
ReexportsOf(crateName, use) ==
    LET sourceCrate == IF use.crateID = 0 THEN crateName
                       ELSE ExternalCrateName(use.crateID)
        localPath == use.module \o Sep \o use.name
    IN IF ~use.inPaths \/ sourceCrate = "" THEN {}
       ELSE IF use.isGlob
            THEN IF use.module = use.path /\ sourceCrate = crateName THEN {}
                 ELSE {[local |-> use.module, srcCrate |-> sourceCrate,
                        srcPrefix |-> use.path]}
       ELSE IF localPath = use.path /\ sourceCrate = crateName THEN {}
            ELSE {[local |-> localPath, srcCrate |-> sourceCrate,
                   srcPrefix |-> use.path]}

\* the use items of the crates: in its module p_q, crate a has a glob of b's
\* t, b's u under the name r, and its own p_q::s under that very name
Uses(name) ==
    IF name = "a"
    THEN {[module |-> <<"a">> \o Sep \o <<"p", "_", "q">>, name |-> <<"*">>,
           isGlob |-> TRUE, inPaths |-> TRUE, crateID |-> 1,
           path |-> <<"b">> \o Sep \o <<"t">>],
          [module |-> <<"a">> \o Sep \o <<"p", "_", "q">>, name |-> <<"r">>,
           isGlob |-> FALSE, inPaths |-> TRUE, crateID |-> 1,
           path |-> <<"b">> \o Sep \o <<"u">>],
          [module |-> <<"a">> \o Sep \o <<"p", "_", "q">>, name |-> <<"s">>,
           isGlob |-> FALSE, inPaths |-> TRUE, crateID |-> 0,
           path |-> <<"a">> \o Sep \o <<"p", "_", "q">> \o Sep \o <<"s">>]}
    ELSE {}

\* docs.CollectReexports over the use items of a module tree
CollectReexportsOf(crateName, uses) ==
    UNION {ReexportsOf(crateName, use) : use \in uses}

\* docs.CollectReexports: the re-exports of a crate
CollectReexports(name) == CollectReexportsOf(name, Uses(name))

(***************************************************************************)
(* embeddings.ChunkSections. A markdown text is written as the sequence of *)
(* its blocks; a chunk text as the sequence of its pieces.                 *)
(***************************************************************************)
\* white space, a paragraph, a "# " heading, an underlined heading, a
\* fenced code block of 80 characters or more, a shorter one
Blocks == {"blank", "para", "heading", "setext", "code", "snippet"}

\* strings.TrimSpace
RECURSIVE TrimLeft(_)
TrimLeft(md) == IF md # <<>> /\ Head(md) = "blank" THEN TrimLeft(Tail(md)) ELSE md
RECURSIVE TrimRight(_)
TrimRight(md) ==
    IF md # <<>> /\ md[Len(md)] = "blank" THEN TrimRight(SubSeq(md, 1, Len(md) - 1)) ELSE md
TrimSpace(md) == TrimRight(TrimLeft(md))

\* findHeadingOffset: the next line that starts a "# " heading after
\* position i, the end of the source when there is none
NextHeading(source, i) ==
    IF \E j \in (i + 1)..Len(source) : source[j] = "heading"
    THEN CHOOSE j \in (i + 1)..Len(source) :
            /\ source[j] = "heading"
            /\ \A k \in (i + 1)..(j - 1) : source[k] # "heading"
    ELSE Len(source) + 1

\* splitSections, the summary: the first paragraph met before any heading
Summary(source) ==
    IF \E i \in 1..Len(source) :
          /\ source[i] = "para"
          /\ \A j \in 1..(i - 1) : source[j] \notin {"heading", "setext"}
    THEN <<"para">> ELSE <<>>

\* splitSections, the sections from the heading at position i on
RECURSIVE SectionsFrom(_, _)
SectionsFrom(source, i) ==
    IF i > Len(source) THEN <<>>
    ELSE <<TrimSpace(SubSeq(source, i, NextHeading(source, i) - 1))>>
            \o SectionsFrom(source, NextHeading(source, i))

\* splitSections, the sections: the source when it has no "# " heading,
\* otherwise the text before the first heading (if any) and one section per
\* heading
Sections(source) ==
    IF NextHeading(source, 0) > Len(source) THEN <<source>>
    ELSE (IF TrimSpace(SubSeq(source, 1, NextHeading(source, 0) - 1)) # <<>>
          THEN <<TrimSpace(SubSeq(source, 1, NextHeading(source, 0) - 1))>>
          ELSE <<>>)
         \o SectionsFrom(source, NextHeading(source, 0))

\* splitSections, the code blocks of 80 characters or more
CodeBlocks(source) == LET Long(b) == b = "code" IN SelectSeq(source, Long)

\* the chunk texts of a trimmed markdown that is not empty
ChunkTexts(preamble, md) ==
    LET NotBlank(sec) == TrimSpace(sec) # <<>>
        secs == SelectSeq(Sections(md), NotBlank)
    IN (IF Summary(md) # <<>> /\ Len(Sections(md)) > 1
        THEN <<preamble \o <<"\n\n">> \o Summary(md)>> ELSE <<>>)
       \o [k \in 1..Len(secs) |-> preamble \o <<"\n\n">> \o TrimSpace(secs[k])]
       \o [k \in 1..Len(CodeBlocks(md)) |->
              preamble \o <<"\n\n", "fence", CodeBlocks(md)[k], "fence">>]

\* a ChunkSections that numbers every chunk 0
ChunkSectionsUnnumbered(preamble, markdown) ==
    IF TrimSpace(markdown) = <<>> THEN <<[Text |-> preamble, Index |-> 0]>>
    ELSE [k \in 1..Len(ChunkTexts(preamble, TrimSpace(markdown))) |->
            [Text |-> ChunkTexts(preamble, TrimSpace(markdown))[k], Index |-> 0]]

\* embeddings.ChunkSections: the chunks of a body under a preamble
ChunkSections(preamble, markdown) ==
    IF TrimSpace(markdown) = <<>> THEN <<[Text |-> preamble, Index |-> 0]>>
    ELSE [k \in 1..Len(ChunkTexts(preamble, TrimSpace(markdown))) |->
            [Text |-> ChunkTexts(preamble, TrimSpace(markdown))[k], Index |-> k - 1]]

\* the markdown of the bodies: d1 is one paragraph, d2 has two headed sections
Markdown(content) ==
    IF content = "d1" THEN <<"para">> ELSE <<"heading", "para", "heading">>

VARIABLES
    daemon,         \* "running" | "expiring" | "shutting" | "saved" | "down"
    elapsed,        \* ticks since expTimer was last reset
    socket,         \* the socket file exists
    restarts,       \* process starts after the first
    faults,         \* injected failures so far
    received,       \* requests received so far
    crates,         \* row -> "absent" | "fetched" | "processed"
    items,          \* set of [crate, rid, path, hash]
    reexports,      \* set of [crate, local, srcCrate, srcPrefix]
    embeddings,     \* set of [id, hash, idx]
    cas,            \* content hashes with a blob in the CAS directory
    hnsw,           \* node ids of the in-memory HNSW index
    hnswFile,       \* the .hnsw file: [exists, nodes]
    versionCache,   \* name -> "none" | "notFound" | version
    addCrateGroup,  \* singleflight keys in flight
    pc,             \* handler position
    req,            \* handler's current CrateSpec (version defaulted)
    idx,            \* loop index of the handler
    toEmbed,        \* embeddables collected by indexItems
    metas,          \* chunkMeta list of embedAndBacklink
    result,         \* rpc.CrateResult being built
    fetched,        \* the handler's request issued an upstream fetch
    reported,       \* the last successful add-crates result sent: [req, items]
    prior,          \* item count reported for the same request before this one began
    stream,         \* handler -> the add-crates stream: [crates, lines, cut]
    searchOut,      \* handler -> the search it answers: filter, crate ids, results
    redirect,       \* handler -> the get-doc it answers: crate, path, re-export found
    call            \* a library function called on its own: [fn, args, ret]

dbVars == <<crates, items, reexports, embeddings, cas>>
annVars == <<hnsw, hnswFile>>
procVars == <<pc, req, idx, toEmbed, metas, result, fetched, prior, stream,
              searchOut, redirect, call>>
lifeVars == <<daemon, socket, restarts>>
vars == <<daemon, elapsed, socket, restarts, faults, received, crates, items,
          reexports, embeddings, cas, hnsw, hnswFile, versionCache, addCrateGroup,
          pc, req, idx, toEmbed, metas, result, fetched, reported, prior,
          stream, searchOut, redirect, call>>

\* the .hnsw file: absent, or holding the saved node ids
NoFile == [exists |-> FALSE, nodes |-> {}]
FileOf(nodes) == [exists |-> TRUE, nodes |-> nodes]
NoResult == [items |-> 0, err |-> FALSE]
NoReport == [req |-> NoReq, items |-> 0]
\* no add-crates stream: crates is the batch of the request, lines the result
\* lines sent so far, cut the number of crates that had been started when
\* the client disconnected (-1 while it is connected)
NoStream == [crates |-> <<>>, lines |-> <<>>, cut |-> -1]

RowOf(r) == <<r.name, CrateVersion(r.name, r.ver)>>
RowIds == {e.id : e \in embeddings}
CountItems(row) == Cardinality({i \in items : i.crate = row})
HasEmbeddings(hash) == \E e \in embeddings : e.hash = hash
\* SQLite rowid of the next row: one more than the largest
NextId == IF embeddings = {} THEN 1
          ELSE 1 + (CHOOSE m \in RowIds : \A k \in RowIds : k <= m)

\* GetLatestCrate: a processed row of the name, if any
GetLatestCrate(name) == {row \in Rows : row[1] = name /\ crates[row] = "processed"}

\* no file at a path of the content-addressed store
NoBlob == [exists |-> FALSE, bytes |-> [frame |-> "", whole |-> FALSE]]

\* no library function called yet
NoCall == [fn |-> "", args |-> <<>>, ret |-> <<>>]

\* no re-export looked up
NoMatch == [found |-> FALSE, crate |-> "", path |-> <<>>]
\* no get-doc in hand
NoRedirect == [crate |-> <<>>, path |-> <<>>, out |-> NoMatch]

\* no search in hand
NoSearch == [names |-> {}, crateIDs |-> {}, sim |-> <<>>, limit |-> 0,
             rerank |-> "none", results |-> <<>>]

Init ==
    /\ daemon = "running"
    /\ elapsed = 0
    /\ socket = TRUE
    /\ restarts = 0
    /\ faults = 0
    /\ received = 0
    /\ crates = [row \in Rows |-> "absent"]
    /\ items = {}
    /\ reexports = {}
    /\ embeddings = {}
    /\ cas = [h \in Hashes |-> NoBlob]
    /\ hnsw = {}
    /\ hnswFile = NoFile
    /\ versionCache = [n \in Names |-> "none"]
    /\ addCrateGroup = {}
    /\ pc = [p \in Procs |-> "idle"]
    /\ req = [p \in Procs |-> NoReq]
    /\ idx = [p \in Procs |-> 0]
    /\ toEmbed = [p \in Procs |-> <<>>]
    /\ metas = [p \in Procs |-> <<>>]
    /\ result = [p \in Procs |-> NoResult]
    /\ fetched = [p \in Procs |-> FALSE]
    /\ reported = NoReport
    /\ prior = [p \in Procs |-> -1]
    /\ stream = [p \in Procs |-> NoStream]
    /\ searchOut = [p \in Procs |-> NoSearch]
    /\ redirect = [p \in Procs |-> NoRedirect]
    /\ call = NoCall

\* the process serves its handlers until os.Exit
Alive == daemon # "down"
\* Server.Stop has begun
Stopping == daemon \in {"expiring", "shutting"}

(***************************************************************************)
(* Idle timer (Server.Start, resetExpiration, withExpReset, expire).       *)
(***************************************************************************)
\* time passes; the timer set by time.AfterFunc / Reset runs down
Tick ==
    /\ daemon = "running"
    /\ elapsed < ExpirationTicks
    /\ elapsed' = elapsed + 1
    /\ UNCHANGED <<lifeVars, received, faults, dbVars, annVars, versionCache,
                   addCrateGroup, procVars, reported>>

\* a resetExpiration that leaves the running timer as it is
resetExpirationKeeps == UNCHANGED elapsed

\* Server.resetExpiration: Stop and Reset(s.expiration)
resetExpiration == elapsed' = 0

(***************************************************************************)
(* add-crates: Server.handleAddCrates and Server.addCrate.                 *)
(***************************************************************************)
\* withExpReset(handleAddCrates): the timer is reset, the request decoded,
\* the loop over req.Crates begins with the first crate
ReceiveBatch(p, specs) ==
    /\ daemon = "running"
    /\ pc[p] = "idle"
    /\ specs # <<>>
    /\ received + Len(specs) <= MaxRequests
    /\ received' = received + 1
    /\ resetExpiration
    /\ pc' = [pc EXCEPT ![p] = "check"]
    /\ req' = [req EXCEPT ![p] = specs[1]]
    /\ prior' = [prior EXCEPT ![p] =
                   IF reported.req = specs[1] THEN reported.items ELSE -1]
    /\ stream' = [stream EXCEPT ![p] = [crates |-> specs, lines |-> <<>>, cut |-> -1]]
    /\ UNCHANGED <<lifeVars, faults, dbVars, annVars, versionCache,
                   addCrateGroup, idx, toEmbed, metas, result, fetched,
                   reported, searchOut, redirect, call>>

\* an add-crates request for one crate
Receive(p, r) == ReceiveBatch(p, <<r>>)

\* the processed rows addCrate may answer from without entering the group
CatalogHit(r) ==
    IF r.ver = "latest"
    THEN IF versionCache[r.name] \in Versions
            /\ crates[<<r.name, versionCache[r.name]>>] = "processed"
         THEN {<<r.name, versionCache[r.name]>>}
         ELSE GetLatestCrate(r.name)
    ELSE {row \in {<<r.name, r.ver>>} : crates[row] = "processed"}

\* an addCrate that looks into the version cache whatever the version asked
CheckAnyVersion(p) ==
    /\ Alive
    /\ pc[p] = "check"
    /\ IF versionCache[req[p].name] = "notFound"
       THEN /\ result' = [result EXCEPT ![p] = [items |-> 0, err |-> TRUE]]
            /\ pc' = [pc EXCEPT ![p] = "respond"]
       ELSE IF CatalogHit(req[p]) # {}
       THEN /\ \E row \in CatalogHit(req[p]) :
                 result' = [result EXCEPT ![p] =
                               [items |-> CountItems(row), err |-> FALSE]]
            /\ pc' = [pc EXCEPT ![p] = "respond"]
       ELSE /\ pc' = [pc EXCEPT ![p] = "enter"]
            /\ UNCHANGED result
    /\ UNCHANGED <<lifeVars, received, elapsed, faults, dbVars, annVars, versionCache,
                   addCrateGroup, req, idx, toEmbed, metas, fetched, prior, stream,
                   reported, searchOut, redirect, call>>

\* addCrate up to the singleflight call: version cache, then catalog
Check(p) ==
    /\ Alive
    /\ pc[p] = "check"
    /\ IF req[p].ver = "latest" /\ versionCache[req[p].name] = "notFound"
       THEN /\ result' = [result EXCEPT ![p] = [items |-> 0, err |-> TRUE]]
            /\ pc' = [pc EXCEPT ![p] = "respond"]
       ELSE IF CatalogHit(req[p]) # {}
       THEN /\ \E row \in CatalogHit(req[p]) :
                 result' = [result EXCEPT ![p] =
                               [items |-> CountItems(row), err |-> FALSE]]
            /\ pc' = [pc EXCEPT ![p] = "respond"]
       ELSE /\ pc' = [pc EXCEPT ![p] = "enter"]
            /\ UNCHANGED result
    /\ UNCHANGED <<lifeVars, received, elapsed, faults, dbVars, annVars, versionCache,
                   addCrateGroup, req, idx, toEmbed, metas, fetched, prior, stream,
                   reported, searchOut, redirect, call>>

\* singleflight.Group.Do: join the flight of the key or start one
Enter(p) ==
    /\ Alive
    /\ pc[p] = "enter"
    /\ IF req[p] \in addCrateGroup
       THEN /\ pc' = [pc EXCEPT ![p] = "wait"]
            /\ UNCHANGED addCrateGroup
       ELSE /\ pc' = [pc EXCEPT ![p] = "fetch"]
            /\ addCrateGroup' = addCrateGroup \cup {req[p]}
    /\ UNCHANGED <<lifeVars, received, elapsed, faults, dbVars, annVars, versionCache,
                   req, idx, toEmbed, metas, result, fetched, prior, stream, reported,
                   searchOut, redirect, call>>

\* addCrateWork of p returns res (its locals are gone): the leader and every
\* waiter of the key get it
FinishFlight(p, res) ==
    /\ addCrateGroup' = addCrateGroup \ {req[p]}
    /\ idx' = [idx EXCEPT ![p] = 0]
    /\ toEmbed' = [toEmbed EXCEPT ![p] = <<>>]
    /\ metas' = [metas EXCEPT ![p] = <<>>]
    /\ pc' = [q \in Procs |->
                IF q = p \/ (pc[q] = "wait" /\ req[q] = req[p])
                THEN "respond" ELSE pc[q]]
    /\ result' = [q \in Procs |->
                    IF q = p \/ (pc[q] = "wait" /\ req[q] = req[p])
                    THEN res ELSE result[q]]

\* Server.setCachedVersion
setCachedVersion(name, entry) ==
    versionCache' = [versionCache EXCEPT ![name] = entry]

\* a resolveVersion that caches nothing when the fetch fails
FetchFailUncached(p) ==
    /\ Alive
    /\ pc[p] = "fetch"
    /\ faults < MaxFaults
    /\ faults' = faults + 1
    /\ fetched' = [fetched EXCEPT ![p] = TRUE]
    /\ FinishFlight(p, [items |-> 0, err |-> TRUE])
    /\ UNCHANGED <<lifeVars, received, elapsed, dbVars, annVars, versionCache,
                   req, prior, stream, reported, searchOut, redirect, call>>

\* resolveVersion fails: docs.FetchRustdocJSON returns an error
FetchFail(p) ==
    /\ Alive
    /\ pc[p] = "fetch"
    /\ faults < MaxFaults
    /\ faults' = faults + 1
    /\ fetched' = [fetched EXCEPT ![p] = TRUE]
    /\ IF req[p].ver = "latest"
       THEN setCachedVersion(req[p].name, "notFound")
       ELSE UNCHANGED versionCache
    /\ FinishFlight(p, [items |-> 0, err |-> TRUE])
    /\ UNCHANGED <<lifeVars, received, elapsed, dbVars, annVars, req, prior, stream,
                   reported, searchOut, redirect, call>>

\* resolveVersion succeeds; addCrateWork checks the resolved version, caches
\* it, and calls UpsertCrate and MarkCrateFetched
FetchOk(p) ==
    /\ Alive
    /\ pc[p] = "fetch"
    /\ fetched' = [fetched EXCEPT ![p] = TRUE]
    /\ setCachedVersion(req[p].name, CrateVersion(req[p].name, req[p].ver))
    /\ IF CrateVersion(req[p].name, req[p].ver) # req[p].ver
          /\ crates[RowOf(req[p])] = "processed"
       THEN /\ FinishFlight(p, [items |-> CountItems(RowOf(req[p])), err |-> FALSE])
            /\ UNCHANGED crates
       ELSE /\ crates' = [crates EXCEPT ![RowOf(req[p])] =
                             IF @ = "absent" THEN "fetched" ELSE @]
            /\ pc' = [pc EXCEPT ![p] = "delete"]
            /\ UNCHANGED <<addCrateGroup, result, idx, toEmbed, metas>>
    /\ UNCHANGED <<lifeVars, received, elapsed, faults, items, reexports,
                   embeddings, cas, annVars, req, prior, stream, reported, searchOut, redirect, call>>

(***************************************************************************)
(* Server.indexItems: rewrite the items and re-exports of the crate row.   *)
(***************************************************************************)
\* DeleteItemsByCrate, DeleteReexportsByCrate and the InsertReexport loop
\* over docs.CollectReexports
DeleteItems(p) ==
    /\ Alive
    /\ pc[p] = "delete"
    /\ items' = {i \in items : i.crate # RowOf(req[p])}
    /\ reexports' = {x \in reexports : x.crate # RowOf(req[p])} \cup
          {[crate |-> RowOf(req[p]), local |-> l.local, srcCrate |-> l.srcCrate,
            srcPrefix |-> l.srcPrefix] : l \in CollectReexports(req[p].name)}
    /\ pc' = [pc EXCEPT ![p] = "items"]
    /\ idx' = [idx EXCEPT ![p] = 1]
    /\ toEmbed' = [toEmbed EXCEPT ![p] = <<>>]
    /\ UNCHANGED <<lifeVars, received, elapsed, faults, crates, embeddings, cas,
                   annVars, versionCache, addCrateGroup, req, metas,
                   result, fetched, prior, stream, reported, searchOut, redirect, call>>

\* the item loop moves on to the next parsed item, or to embedAndBacklink
NextItem(p) ==
    /\ idx' = [idx EXCEPT ![p] = @ + 1]
    /\ pc' = [pc EXCEPT ![p] =
                IF idx[p] = Len(Parse(req[p].name)) THEN "embed" ELSE "items"]

(***************************************************************************)
(* The content-addressed store: cas.Write and cas.Read over the files.    *)
(***************************************************************************)
\* zstd: the frame a writer produces for a content, and the same frame cut
\* short by a write that did not finish
Compress(content) == [frame |-> content, whole |-> TRUE]
Cut(content) == [frame |-> content, whole |-> FALSE]

\* cas.Write returns the hash: the file was there (os.Stat) and is left
\* alone, or it is written whole
Write(store, content) ==
    IF store[Sum256(content)].exists THEN store
    ELSE [store EXCEPT ![Sum256(content)] = [exists |-> TRUE, bytes |-> Compress(content)]]

\* cas.Write returns an error: nothing was written (MkdirAll, the zstd
\* writer), or os.WriteFile created the file and failed before its end
WriteFails(store, content) ==
    IF store[Sum256(content)].exists THEN {}
    ELSE {store,
          [store EXCEPT ![Sum256(content)] = [exists |-> TRUE, bytes |-> Cut(content)]]}

\* cas.Read: the decoded file, an error when there is no file or the frame
\* has no end
Read(store, hash) ==
    IF store[hash].exists /\ store[hash].bytes.whole
    THEN [err |-> FALSE, data |-> store[hash].bytes.frame]
    ELSE [err |-> TRUE, data |-> ""]

\* the embeddables one stored item adds: its body
Embeddables(parsed) == <<Sum256(parsed.docs)>>

\* the UNIQUE(crate_id, rustdoc_id) constraint of the items table
ItemConflict(row, rid) == \E i \in items : i.crate = row /\ i.rid = rid

\* one round of the item loop: cas.Write, InsertItem
IndexItem(p) ==
    /\ Alive
    /\ pc[p] = "items"
    /\ LET parsed == Parse(req[p].name)[idx[p]]
           row == RowOf(req[p])
       IN IF ItemConflict(row, parsed.rid)
          THEN \* InsertItem fails on the constraint: logged, item skipped
               /\ cas' = Write(cas, parsed.docs)
               /\ UNCHANGED <<items, toEmbed>>
          ELSE /\ cas' = Write(cas, parsed.docs)
               /\ items' = items \cup
                     {[crate |-> row, rid |-> parsed.rid, path |-> parsed.path,
                       hash |-> Sum256(parsed.docs)]}
               /\ toEmbed' = [toEmbed EXCEPT ![p] = @ \o Embeddables(parsed)]
    /\ NextItem(p)
    /\ UNCHANGED <<lifeVars, received, elapsed, faults, crates, reexports, embeddings,
                   annVars, versionCache, addCrateGroup, req, metas, result,
                   fetched, prior, stream, reported, searchOut, redirect, call>>

\* an item loop that stores the item's row although cas.Write failed
IndexItemFailStored(p) ==
    /\ Alive
    /\ pc[p] = "items"
    /\ faults < MaxFaults
    /\ faults' = faults + 1
    /\ cas' \in WriteFails(cas, Parse(req[p].name)[idx[p]].docs)
                \cup {Write(cas, Parse(req[p].name)[idx[p]].docs)}
    /\ items' = items \cup
          {[crate |-> RowOf(req[p]), rid |-> Parse(req[p].name)[idx[p]].rid,
            path |-> Parse(req[p].name)[idx[p]].path,
            hash |-> Sum256(Parse(req[p].name)[idx[p]].docs)]}
    /\ NextItem(p)
    /\ UNCHANGED <<lifeVars, received, elapsed, crates, reexports,
                   embeddings, annVars, versionCache, addCrateGroup, req,
                   toEmbed, metas, result, fetched, prior, stream, reported, searchOut, redirect, call>>

\* cas.Write of the item's body or InsertItem fails: logged, the item skipped
IndexItemFail(p) ==
    /\ Alive
    /\ pc[p] = "items"
    /\ faults < MaxFaults
    /\ faults' = faults + 1
    /\ cas' \in WriteFails(cas, Parse(req[p].name)[idx[p]].docs)
                \cup {Write(cas, Parse(req[p].name)[idx[p]].docs)}
    /\ NextItem(p)
    /\ UNCHANGED <<lifeVars, received, elapsed, crates, items, reexports,
                   embeddings, annVars, versionCache, addCrateGroup, req,
                   toEmbed, metas, result, fetched, prior, stream, reported, searchOut, redirect, call>>

(***************************************************************************)
(* Server.embedAndBacklink.                                                *)
(***************************************************************************)
\* the chunkMeta entries of one content hash
ChunkMetas(hash) ==
    LET chunks == ChunkSections(<<"path">>, Markdown(Read(cas, hash).data))
    IN [k \in 1..Len(chunks) |-> [hash |-> hash, idx |-> chunks[k].Index]]

\* the metas of the embeddables from position k on: each hash that needs
\* embedding contributes its chunks once, at its first occurrence
RECURSIVE BuildMetas(_, _, _)
BuildMetas(list, k, seen) ==
    IF k > Len(list) THEN <<>>
    ELSE IF list[k] \in seen \/ HasEmbeddings(list[k])
         THEN BuildMetas(list, k + 1, seen)
    ELSE IF Read(cas, list[k]).err
         THEN BuildMetas(list, k + 1, seen \cup {list[k]})
         ELSE ChunkMetas(list[k]) \o BuildMetas(list, k + 1, seen \cup {list[k]})

\* the dimension of the vectors the store takes
embeddingDim == 1024
\* the length of a vector of another dimension
ShortDim == 3

\* a float32: an ordinary number, a NaN or an infinity
Components == {"finite", "NaN", "+Inf", "-Inf"}
\* the vectors a provider may return: len components, all of them ordinary
\* numbers but possibly the first
Vectors == [len : {ShortDim, embeddingDim}, first : Components]
\* the vectors of a provider that keeps to the model's dimension
GoodVectors == {[len |-> embeddingDim, first |-> "finite"]}

\* needsEmbedding (HasEmbeddings per unique hash), cas.Read, ChunkSections,
\* then BatchEmbedder.EmbedAll returns the vectors of all chunks, taken from
\* V; with nothing to embed the function returns at once
EmbedOk(p, V) ==
    /\ Alive
    /\ pc[p] = "embed"
    /\ \E vecs \in [1..Len(BuildMetas(toEmbed[p], 1, {})) -> V] :
          metas' = [metas EXCEPT ![p] =
                      [k \in 1..Len(BuildMetas(toEmbed[p], 1, {})) |->
                          [hash |-> BuildMetas(toEmbed[p], 1, {})[k].hash,
                           idx |-> BuildMetas(toEmbed[p], 1, {})[k].idx,
                           vec |-> vecs[k]]]]
    /\ pc' = [pc EXCEPT ![p] =
                IF BuildMetas(toEmbed[p], 1, {}) = <<>> THEN "mark" ELSE "insert"]
    /\ idx' = [idx EXCEPT ![p] = 1]
    /\ toEmbed' = [toEmbed EXCEPT ![p] = <<>>]
    /\ UNCHANGED <<lifeVars, received, elapsed, faults, dbVars, annVars, versionCache,
                   addCrateGroup, req, result, fetched, prior, stream, reported,
                   searchOut, redirect, call>>

\* an embedAndBacklink that logs the failure of EmbedAll and returns nil
EmbedFailSwallowed(p) ==
    /\ Alive
    /\ pc[p] = "embed"
    /\ BuildMetas(toEmbed[p], 1, {}) # <<>>
    /\ faults < MaxFaults
    /\ faults' = faults + 1
    /\ pc' = [pc EXCEPT ![p] = "mark"]
    /\ toEmbed' = [toEmbed EXCEPT ![p] = <<>>]
    /\ UNCHANGED <<lifeVars, received, elapsed, dbVars, annVars, versionCache, req,
                   addCrateGroup, idx, metas, result,
                   fetched, prior, stream, reported, searchOut, redirect, call>>

\* BatchEmbedder.EmbedAll fails on a batch: the ingestion returns the error
EmbedFail(p) ==
    /\ Alive
    /\ pc[p] = "embed"
    /\ BuildMetas(toEmbed[p], 1, {}) # <<>>
    /\ faults < MaxFaults
    /\ faults' = faults + 1
    /\ FinishFlight(p, [items |-> 0, err |-> TRUE])
    /\ UNCHANGED <<lifeVars, received, elapsed, dbVars, annVars, versionCache, req,
                   fetched, prior, stream, reported, searchOut, redirect, call>>

\* the insert loop moves on to the next vector, or to the end
NextMeta(p) ==
    /\ idx' = [idx EXCEPT ![p] = @ + 1]
    /\ pc' = [pc EXCEPT ![p] =
                IF idx[p] = Len(metas[p]) THEN "mark" ELSE "insert"]

\* validateEmbedding: no component is a NaN or an infinity
validateEmbedding(embedding) == embedding.first \notin {"NaN", "+Inf", "-Inf"}

\* DB.InsertEmbedding, its two checks before the INSERT
Accepted(embedding) == embedding.len = embeddingDim /\ validateEmbedding(embedding)

\* a DB.InsertEmbedding that inserts whatever vector it is given
InsertEmbeddingUnchecked(p) ==
    /\ Alive
    /\ pc[p] = "insert"
    /\ Cardinality(embeddings) < MaxEmbeddings
    /\ embeddings' = embeddings \cup
          {[id |-> NextId, hash |-> metas[p][idx[p]].hash, idx |-> metas[p][idx[p]].idx]}
    /\ hnsw' = hnsw \cup {NextId}
    /\ NextMeta(p)
    /\ UNCHANGED <<lifeVars, received, elapsed, faults, crates, items, reexports,
                   cas, hnswFile, versionCache, addCrateGroup, req, toEmbed, metas,
                   result, fetched, prior, stream, reported, searchOut, redirect, call>>

\* DB.InsertEmbedding: the vector passes the checks, the row is inserted,
\* then the node is added to the HNSW index under the row's id
InsertEmbedding(p) ==
    /\ Alive
    /\ pc[p] = "insert"
    /\ Accepted(metas[p][idx[p]].vec)
    /\ Cardinality(embeddings) < MaxEmbeddings
    /\ embeddings' = embeddings \cup
          {[id |-> NextId, hash |-> metas[p][idx[p]].hash, idx |-> metas[p][idx[p]].idx]}
    /\ hnsw' = hnsw \cup {NextId}
    /\ NextMeta(p)
    /\ UNCHANGED <<lifeVars, received, elapsed, faults, crates, items, reexports,
                   cas, hnswFile, versionCache, addCrateGroup, req, toEmbed, metas,
                   result, fetched, prior, stream, reported, searchOut, redirect, call>>

\* DB.InsertEmbedding returns an error before the row is written (the vector
\* is refused, or the statement failed): logged, the loop continues
InsertEmbeddingFail(p) ==
    /\ Alive
    /\ pc[p] = "insert"
    /\ IF Accepted(metas[p][idx[p]].vec)
       THEN faults < MaxFaults /\ faults' = faults + 1
       ELSE faults' = faults
    /\ NextMeta(p)
    /\ UNCHANGED <<lifeVars, received, elapsed, dbVars, annVars, versionCache,
                   addCrateGroup, req, toEmbed, metas, result, fetched, prior, stream,
                   reported, searchOut, redirect, call>>

\* addCrateWork's last lines: MarkCrateProcessed and result.Items = len(items)
MarkProcessed(p) ==
    /\ Alive
    /\ pc[p] = "mark"
    /\ crates' = [crates EXCEPT ![RowOf(req[p])] = "processed"]
    /\ FinishFlight(p, [items |-> Len(Parse(req[p].name)), err |-> FALSE])
    /\ UNCHANGED <<lifeVars, received, elapsed, faults, items, reexports, embeddings,
                   cas, annVars, versionCache, req, fetched, prior, stream, reported,
                   searchOut, redirect, call>>

\* the handler's locals are gone when it returns
HandlerDone(p) ==
    /\ pc' = [pc EXCEPT ![p] = "idle"]
    /\ req' = [req EXCEPT ![p] = NoReq]
    /\ idx' = [idx EXCEPT ![p] = 0]
    /\ toEmbed' = [toEmbed EXCEPT ![p] = <<>>]
    /\ metas' = [metas EXCEPT ![p] = <<>>]
    /\ result' = [result EXCEPT ![p] = NoResult]
    /\ fetched' = [fetched EXCEPT ![p] = FALSE]
    /\ prior' = [prior EXCEPT ![p] = -1]
    /\ stream' = [stream EXCEPT ![p] = NoStream]
    /\ searchOut' = [searchOut EXCEPT ![p] = NoSearch]
    /\ redirect' = [redirect EXCEPT ![p] = NoRedirect]
    /\ call' = call

\* the result line handleAddCrates sends for the crate it has just handled
ResultLine(p) == [spec |-> req[p], err |-> result[p].err]

\* handleAddCrates sends the result line of the crate: when the send fails
\* (client gone) or the crate was the last, it returns; otherwise the loop
\* goes on
Respond(p) ==
    /\ Alive
    /\ pc[p] = "respond"
    /\ IF stream[p].cut # -1
       THEN HandlerDone(p) /\ UNCHANGED reported
       ELSE /\ reported' = IF result[p].err THEN reported
                           ELSE [req |-> req[p], items |-> result[p].items]
            /\ IF Len(stream[p].lines) + 1 = Len(stream[p].crates)
               THEN HandlerDone(p)
               ELSE /\ pc' = [pc EXCEPT ![p] = "loop"]
                    /\ stream' = [stream EXCEPT ![p].lines = Append(@, ResultLine(p))]
                    /\ req' = [req EXCEPT ![p] = NoReq]
                    /\ result' = [result EXCEPT ![p] = NoResult]
                    /\ fetched' = [fetched EXCEPT ![p] = FALSE]
                    /\ prior' = [prior EXCEPT ![p] = -1]
                    /\ UNCHANGED <<idx, toEmbed, metas, searchOut, redirect, call>>
    /\ UNCHANGED <<lifeVars, received, elapsed, faults, dbVars, annVars,
                   versionCache, addCrateGroup>>

\* the loop over req.Crates calls addCrate for the next crate
NextCrate(p) ==
    /\ Alive
    /\ pc[p] = "loop"
    /\ LET spec == stream[p].crates[Len(stream[p].lines) + 1]
       IN /\ req' = [req EXCEPT ![p] = spec]
          /\ prior' = [prior EXCEPT ![p] =
                         IF reported.req = spec THEN reported.items ELSE -1]
    /\ pc' = [pc EXCEPT ![p] = "check"]
    /\ UNCHANGED <<lifeVars, received, elapsed, faults, dbVars, annVars,
                   versionCache, addCrateGroup, idx, toEmbed, metas, result,
                   fetched, stream, reported, searchOut, redirect, call>>

\* the crates of p's batch for which addCrate has been called
Started(p) ==
    IF pc[p] = "loop" THEN Len(stream[p].lines) ELSE Len(stream[p].lines) + 1

\* the client of p's add-crates stream closes its connection
Disconnect(p) ==
    /\ Alive
    /\ stream[p].crates # <<>>
    /\ stream[p].cut = -1
    /\ stream' = [stream EXCEPT ![p].cut = Started(p)]
    /\ UNCHANGED <<lifeVars, received, elapsed, faults, dbVars, annVars,
                   versionCache, addCrateGroup, pc, req, idx, toEmbed, metas,
                   result, fetched, prior, reported, searchOut, redirect, call>>

(***************************************************************************)
(* Version cache expiry and clear-cache.                                   *)
(***************************************************************************)
\* getCachedVersion ignores an entry past its expiry (versionCacheTTL)
CacheExpire(n) ==
    /\ Alive
    /\ versionCache[n] # "none"
    /\ versionCache' = [versionCache EXCEPT ![n] = "none"]
    /\ UNCHANGED <<lifeVars, received, elapsed, faults, dbVars, annVars, addCrateGroup,
                   procVars, reported>>

\* a clearVersionCache that drops only the resolved versions
ClearCacheKeepsNotFound(p) ==
    /\ daemon = "running"
    /\ pc[p] = "idle"
    /\ received < MaxRequests
    /\ received' = received + 1
    /\ resetExpiration
    /\ versionCache' = [n \in Names |->
                           IF versionCache[n] = "notFound" THEN "notFound" ELSE "none"]
    /\ pc' = [pc EXCEPT ![p] = "cleared"]
    /\ UNCHANGED <<lifeVars, faults, dbVars, annVars, addCrateGroup, req, idx,
                   toEmbed, metas, result, fetched, prior, stream, searchOut, redirect, call, reported>>

\* withExpReset(handleClearCache): Server.clearVersionCache
ClearCache(p) ==
    /\ daemon = "running"
    /\ pc[p] = "idle"
    /\ received < MaxRequests
    /\ received' = received + 1
    /\ resetExpiration
    /\ versionCache' = [n \in Names |-> "none"]
    /\ pc' = [pc EXCEPT ![p] = "cleared"]
    /\ UNCHANGED <<lifeVars, faults, dbVars, annVars, addCrateGroup, req, idx,
                   toEmbed, metas, result, fetched, prior, stream, searchOut, redirect, call, reported>>

\* handleClearCache writes the response and returns
ClearCacheRespond(p) ==
    /\ Alive
    /\ pc[p] = "cleared"
    /\ HandlerDone(p)
    /\ UNCHANGED <<lifeVars, received, elapsed, faults, dbVars, annVars,
                   versionCache, addCrateGroup, reported>>

(***************************************************************************)
(* Search (Searcher.Search over DB.VectorSearch and DB.GetItemForHash).    *)
(***************************************************************************)
\* DB.GetCrateIDsByNames: every row of the names, processed or not
GetCrateIDsByNames(names) ==
    {row \in Rows : row[1] \in names /\ crates[row] # "absent"}

\* DB.contentHashesForCrates
contentHashesForCrates(crateIDs) == {i.hash : i \in {j \in items : j.crate \in crateIDs}}

\* DB.knnSearch: the hashes of the index nodes whose similarity to the query
\* exceeds the threshold, by way of the Embeddings rows of the node ids,
\* kept when allowed; sim gives the best similarity of each hash
knnSearch(nodes, sim, threshold, crateIDs) ==
    {e.hash : e \in {x \in embeddings :
        /\ x.id \in nodes
        /\ sim[x.hash] > threshold
        /\ (crateIDs = {} \/ x.hash \in contentHashesForCrates(crateIDs))}}

\* sort.Slice by descending similarity: the orders an unstable sort of a
\* map's entries may produce
SortedBySim(S, sim) ==
    {c \in [1..Cardinality(S) -> S] :
        /\ \A i, j \in 1..Cardinality(S) : i # j => c[i] # c[j]
        /\ \A i, j \in 1..Cardinality(S) : i < j => sim[c[i]] >= sim[c[j]]}

Truncate(c, n) == SubSeq(c, 1, IF Len(c) > n THEN n ELSE Len(c))

\* DB.VectorSearch: an empty crateIDs means no crate filter; the best hashes,
\* at most limit of them
VectorSearch(nodes, sim, threshold, limit, crateIDs) ==
    IF crateIDs # {} /\ contentHashesForCrates(crateIDs) = {} THEN {<<>>}
    ELSE {Truncate(c, limit) :
            c \in SortedBySim(knnSearch(nodes, sim, threshold, crateIDs), sim)}

\* a GetItemForHash without the crate_id IN (...) condition
GetItemForHashAnyCrate(hash, crateIDs) == {i \in items : i.hash = hash}

\* DB.GetItemForHash: the items the LIMIT 1 query may return
GetItemForHash(hash, crateIDs) ==
    {i \in items : i.hash = hash /\ (crateIDs = {} \/ i.crate \in crateIDs)}

\* Searcher.Search, the loop over the candidates: one representative item
\* with the candidate's score per candidate, candidates without an item dropped
Resolved(candidates, sim, crateIDs) ==
    LET Kept(h) == GetItemForHash(h, crateIDs) # {}
        kept == SelectSeq(candidates, Kept)
    IN {[k \in 1..Len(kept) |-> [item |-> r[k], score |-> sim[kept[k]]]] :
          r \in {f \in [1..Len(kept) -> items] :
                   \A k \in 1..Len(kept) : f[k] \in GetItemForHash(kept[k], crateIDs)}}

\* the relevance score the rerank provider gives, apart from every similarity
RelevanceScore == MaxSim + 1

\* VoyageClient.Rerank: a failure or at most limit of the documents in the
\* provider's order
RerankOutcomes(n, limit) ==
    {[failed |-> TRUE, order |-> <<>>]} \cup
    {[failed |-> FALSE, order |-> o] :
        o \in {f \in UNION {[1..m -> 1..n] : m \in 0..(IF n > limit THEN limit ELSE n)} :
                 \A i, j \in DOMAIN f : i # j => f[i] # f[j]}}

\* a fallback that returns every resolved item
BuildResultsUntruncated(resolved, reranked, limit) ==
    IF ~reranked.failed /\ Len(reranked.order) > 0
    THEN [k \in 1..Len(reranked.order) |->
            [item |-> resolved[reranked.order[k]].item, score |-> RelevanceScore]]
    ELSE resolved

\* Searcher.Search, the end: the reranked order with relevance scores, or
\* the first limit resolved items with their vector scores
BuildResults(resolved, reranked, limit) ==
    IF ~reranked.failed /\ Len(reranked.order) > 0
    THEN [k \in 1..Len(reranked.order) |->
            [item |-> resolved[reranked.order[k]].item, score |-> RelevanceScore]]
    ELSE Truncate(resolved, limit)

\* the responses Searcher.Search may give over an index holding nodes
SearchResponses(nodes, names, sim, threshold, limit) ==
    LET crateIDs == GetCrateIDsByNames(names)
    IN UNION {UNION {
          {[names |-> names, crateIDs |-> crateIDs, sim |-> sim, limit |-> limit,
            rerank |-> IF resolved = <<>> THEN "none"
                       ELSE IF reranked.failed THEN "failed" ELSE "ok",
            results |-> IF resolved = <<>> THEN <<>>
                        ELSE BuildResults(resolved, reranked, limit)] :
              reranked \in IF resolved = <<>> THEN {[failed |-> TRUE, order |-> <<>>]}
                           ELSE RerankOutcomes(Len(resolved), limit)} :
          resolved \in Resolved(candidates, sim, crateIDs)} :
          candidates \in VectorSearch(nodes, sim, threshold, limit * 3, crateIDs)}

\* withExpReset(handleSearch): the timer is reset, the search runs
Search(p, names, sim, threshold, limit) ==
    /\ daemon = "running"
    /\ pc[p] = "idle"
    /\ received < MaxRequests
    /\ received' = received + 1
    /\ resetExpiration
    /\ searchOut' \in {[searchOut EXCEPT ![p] = S] :
                          S \in SearchResponses(hnsw, names, sim, threshold, limit)}
    /\ pc' = [pc EXCEPT ![p] = "found"]
    /\ UNCHANGED <<lifeVars, faults, dbVars, annVars, versionCache,
                   addCrateGroup, req, idx, toEmbed, metas, result, fetched,
                   prior, stream, reported, redirect, call>>

\* handleSearch writes the response and returns
SearchRespond(p) ==
    /\ Alive
    /\ pc[p] = "found"
    /\ HandlerDone(p)
    /\ UNCHANGED <<lifeVars, received, elapsed, faults, dbVars, annVars, versionCache,
                   addCrateGroup, reported>>

(***************************************************************************)
(* Get-doc (handleGetDoc over DB.ResolveReexport).                         *)
(***************************************************************************)
\* the paths a get-doc request may ask for in a crate: up to MaxSegments
\* names under the crate's name
RECURSIVE PathsUnder(_, _)
PathsUnder(prefix, n) ==
    IF n = 0 THEN {}
    ELSE LET Longer == {prefix \o Sep \o g : g \in Segments}
         IN Longer \cup UNION {PathsUnder(q, n - 1) : q \in Longer}

\* SQLite folds the case of ASCII letters when LIKE compares them
Fold(c) == IF c = "R" THEN "r" ELSE c

\* SQLite's LIKE: in the pattern % stands for any characters, _ for any one
\* character, every other character for itself in either case
RECURSIVE Like(_, _)
Like(str, pattern) ==
    IF pattern = <<>> THEN str = <<>>
    ELSE IF Head(pattern) = "%"
         THEN \E k \in 0..Len(str) : Like(SubSeq(str, k + 1, Len(str)), Tail(pattern))
         ELSE /\ str # <<>>
              /\ (Head(pattern) = "_" \/ Fold(Head(pattern)) = Fold(Head(str)))
              /\ Like(Tail(str), Tail(pattern))

\* the WHERE clause of DB.ResolveReexport
Where(x, crateID, path) ==
    /\ x.crate = crateID
    /\ (x.local = path \/ Like(path, x.local \o Sep \o <<"%">>))

\* DB.ResolveReexport: the outcomes the query with ORDER BY length(local_prefix)
\* DESC LIMIT 1 may have, the rest of the path appended to the source prefix
ResolveReexport(crateID, path) ==
    LET matching == {x \in reexports : Where(x, crateID, path)}
        longest == {x \in matching : \A y \in matching : Len(y.local) <= Len(x.local)}
    IN IF matching = {} THEN {NoMatch}
       ELSE {[found |-> TRUE, crate |-> x.srcCrate,
              path |-> IF x.local = path THEN x.srcPrefix
                       ELSE x.srcPrefix \o SubSeq(path, Len(x.local) + 1, Len(path))] :
                x \in longest}

\* withExpReset(handleGetDoc) for a path that is no item of the crate: the
\* timer is reset, the re-exports of the crate are looked up
GetDoc(p, crateID, path) ==
    /\ daemon = "running"
    /\ pc[p] = "idle"
    /\ received < MaxRequests
    /\ crates[crateID] # "absent"
    /\ received' = received + 1
    /\ resetExpiration
    /\ redirect' \in {[redirect EXCEPT ![p] =
                          [crate |-> crateID, path |-> path, out |-> o]] :
                        o \in ResolveReexport(crateID, path)}
    /\ pc' = [pc EXCEPT ![p] = "redirected"]
    /\ UNCHANGED <<lifeVars, faults, dbVars, annVars, versionCache,
                   addCrateGroup, req, idx, toEmbed, metas, result, fetched,
                   prior, stream, reported, searchOut, call>>

\* handleGetDoc writes the response and returns
GetDocRespond(p) ==
    /\ Alive
    /\ pc[p] = "redirected"
    /\ HandlerDone(p)
    /\ UNCHANGED <<lifeVars, received, elapsed, faults, dbVars, annVars, versionCache,
                   addCrateGroup, reported>>

(***************************************************************************)
(* Daemon life cycle: expire, handleShutdown, Stop, db.Close, db.New.      *)
(***************************************************************************)
\* the timer fires: Server.expire calls Server.Stop
Expire ==
    /\ daemon = "running"
    /\ elapsed = ExpirationTicks
    /\ daemon' = "expiring"
    /\ UNCHANGED <<elapsed, socket, restarts, faults, received, dbVars, annVars,
                   versionCache, addCrateGroup, procVars, reported>>

\* handleShutdown answers and calls Server.Stop on a goroutine
Shutdown ==
    /\ daemon = "running"
    /\ daemon' = "shutting"
    /\ UNCHANGED <<elapsed, socket, restarts, faults, received, dbVars, annVars,
                   versionCache, addCrateGroup, procVars, reported>>

\* Server.Stop after httpServer.Shutdown returned (handlers done or the 5 s
\* deadline passed): listener closed, socket removed, DB.Close saves the index
saveHNSW ==
    /\ Stopping
    /\ socket' = FALSE
    /\ hnswFile' = FileOf(hnsw)
    /\ daemon' = "saved"
    /\ UNCHANGED <<elapsed, restarts, faults, received, dbVars, hnsw, versionCache,
                   addCrateGroup, procVars, reported>>

\* the process is gone: every in-memory structure with it
ProcessGone ==
    /\ daemon' = "down"
    /\ elapsed' = 0
    /\ hnsw' = {}
    /\ versionCache' = [n \in Names |-> "none"]
    /\ addCrateGroup' = {}
    /\ pc' = [p \in Procs |-> "idle"]
    /\ req' = [p \in Procs |-> NoReq]
    /\ idx' = [p \in Procs |-> 0]
    /\ toEmbed' = [p \in Procs |-> <<>>]
    /\ metas' = [p \in Procs |-> <<>>]
    /\ result' = [p \in Procs |-> NoResult]
    /\ fetched' = [p \in Procs |-> FALSE]
    /\ prior' = [p \in Procs |-> -1]
    /\ stream' = [p \in Procs |-> NoStream]
    /\ reported' = NoReport
    /\ searchOut' = [p \in Procs |-> NoSearch]
    /\ redirect' = [p \in Procs |-> NoRedirect]
    /\ call' = call

\* DB.Close closes the connection and expire / handleShutdown call os.Exit
Exit ==
    /\ daemon = "saved"
    /\ ProcessGone
    /\ UNCHANGED <<socket, restarts, faults, received, dbVars, hnswFile>>

\* the process is killed (runDaemon installs no signal handler): no Stop
Kill ==
    /\ Alive
    /\ faults < MaxFaults
    /\ faults' = faults + 1
    /\ ProcessGone
    /\ UNCHANGED <<socket, restarts, received, dbVars, hnswFile>>

\* DB.loadOrCreateHNSW: load the file when it opens; otherwise rebuild from
\* the Embeddings table and save
loadOrCreateHNSW ==
    IF hnswFile.exists
    THEN hnsw' = hnswFile.nodes /\ UNCHANGED hnswFile
    ELSE IF embeddings = {}
    THEN hnsw' = {} /\ UNCHANGED hnswFile
    ELSE hnsw' = RowIds /\ hnswFile' = FileOf(RowIds)

\* runDaemon: db.New, NewServer, Server.Start
Start ==
    /\ daemon = "down"
    /\ restarts < MaxRestarts
    /\ restarts' = restarts + 1
    /\ loadOrCreateHNSW
    /\ daemon' = "running"
    /\ socket' = TRUE
    /\ elapsed' = 0
    /\ UNCHANGED <<faults, received, dbVars, versionCache, addCrateGroup, procVars,
                   reported>>

Next ==
    \/ Tick
    \/ \E p \in Procs, r \in Requests : Receive(p, r)
    \/ \E p \in Procs : Check(p)
    \/ \E p \in Procs : Enter(p)
    \/ \E p \in Procs : FetchFail(p)
    \/ \E p \in Procs : FetchOk(p)
    \/ \E p \in Procs : DeleteItems(p)
    \/ \E p \in Procs : IndexItem(p)
    \/ \E p \in Procs : IndexItemFail(p)
    \/ \E p \in Procs : EmbedOk(p, GoodVectors)
    \/ \E p \in Procs : EmbedFail(p)
    \/ \E p \in Procs : InsertEmbedding(p)
    \/ \E p \in Procs : InsertEmbeddingFail(p)
    \/ \E p \in Procs : MarkProcessed(p)
    \/ \E p \in Procs : Respond(p)
    \/ \E n \in Names : CacheExpire(n)
    \/ \E p \in Procs : ClearCache(p)
    \/ \E p \in Procs : ClearCacheRespond(p)
    \/ \E p \in Procs, names \in SUBSET Names, sim \in [Hashes -> {MaxSim}] :
          Search(p, names, sim, 0, MaxLimit)
    \/ \E p \in Procs : SearchRespond(p)
    \/ Expire
    \/ Shutdown
    \/ saveHNSW
    \/ Exit
    \/ Kill
    \/ Start

Spec == Init /\ [][Next]_vars

\* the add-crates batches a client may send
Batches == Requests \X Requests

\* add-crates batches, with clients that may disconnect, on a daemon that
\* nobody stops, kills or restarts
BatchNext ==
    \/ Tick
    \/ \E p \in Procs, specs \in Batches : ReceiveBatch(p, specs)
    \/ \E p \in Procs : Check(p)
    \/ \E p \in Procs : Enter(p)
    \/ \E p \in Procs : FetchFail(p)
    \/ \E p \in Procs : FetchOk(p)
    \/ \E p \in Procs : DeleteItems(p)
    \/ \E p \in Procs : IndexItem(p)
    \/ \E p \in Procs : IndexItemFail(p)
    \/ \E p \in Procs : EmbedOk(p, GoodVectors)
    \/ \E p \in Procs : EmbedFail(p)
    \/ \E p \in Procs : InsertEmbedding(p)
    \/ \E p \in Procs : InsertEmbeddingFail(p)
    \/ \E p \in Procs : MarkProcessed(p)
    \/ \E p \in Procs : Respond(p)
    \/ \E p \in Procs : NextCrate(p)
    \/ \E p \in Procs : Disconnect(p)
    \/ Expire
    \/ saveHNSW
    \/ Exit

BatchSpec == Init /\ [][BatchNext]_vars

\* one life of the daemon, from its start to its exit: every route, the
\* timer and the shutdown, no crash of the process
LiveNext ==
    \/ Tick
    \/ \E p \in Procs, r \in Requests : Receive(p, r)
    \/ \E p \in Procs : Check(p)
    \/ \E p \in Procs : Enter(p)
    \/ \E p \in Procs : FetchFail(p)
    \/ \E p \in Procs : FetchOk(p)
    \/ \E p \in Procs : DeleteItems(p)
    \/ \E p \in Procs : IndexItem(p)
    \/ \E p \in Procs : IndexItemFail(p)
    \/ \E p \in Procs : EmbedOk(p, GoodVectors)
    \/ \E p \in Procs : EmbedFail(p)
    \/ \E p \in Procs : InsertEmbedding(p)
    \/ \E p \in Procs : InsertEmbeddingFail(p)
    \/ \E p \in Procs : MarkProcessed(p)
    \/ \E p \in Procs : Respond(p)
    \/ \E p \in Procs : ClearCache(p)
    \/ \E p \in Procs : ClearCacheRespond(p)
    \/ \E p \in Procs, names \in SUBSET Names, sim \in [Hashes -> {MaxSim}] :
          Search(p, names, sim, 0, MaxLimit)
    \/ \E p \in Procs : SearchRespond(p)
    \/ Expire
    \/ Shutdown
    \/ saveHNSW
    \/ Exit

\* the timer goroutine runs expire when the timer fires, Server.Stop returns
\* (httpServer.Shutdown is bounded by its 5 s context) and os.Exit follows it
LiveSpec ==
    Init /\ [][LiveNext]_vars /\ WF_vars(Expire) /\ WF_vars(saveHNSW) /\ WF_vars(Exit)

\* searches over what batches have ingested: every similarity level and
\* every limit, a similarity of 0 being at or below the threshold
SearchNext ==
    \/ \E p \in Procs, specs \in Batches : ReceiveBatch(p, specs)
    \/ \E p \in Procs : Check(p)
    \/ \E p \in Procs : Enter(p)
    \/ \E p \in Procs : FetchFail(p)
    \/ \E p \in Procs : FetchOk(p)
    \/ \E p \in Procs : DeleteItems(p)
    \/ \E p \in Procs : IndexItem(p)
    \/ \E p \in Procs : IndexItemFail(p)
    \/ \E p \in Procs : EmbedOk(p, GoodVectors)
    \/ \E p \in Procs : EmbedFail(p)
    \/ \E p \in Procs : InsertEmbedding(p)
    \/ \E p \in Procs : InsertEmbeddingFail(p)
    \/ \E p \in Procs : MarkProcessed(p)
    \/ \E p \in Procs : Respond(p)
    \/ \E p \in Procs : NextCrate(p)
    \/ \E p \in Procs, names \in SUBSET Names, sim \in [Hashes -> 0..MaxSim],
            limit \in 1..MaxLimit : Search(p, names, sim, 0, limit)
    \/ \E p \in Procs : SearchRespond(p)

SearchSpec == Init /\ [][SearchNext]_vars

\* one batch ingested with a provider that may return any vector
InsertNext ==
    \/ \E p \in Procs, specs \in Batches : ReceiveBatch(p, specs)
    \/ \E p \in Procs : Check(p)
    \/ \E p \in Procs : Enter(p)
    \/ \E p \in Procs : FetchFail(p)
    \/ \E p \in Procs : FetchOk(p)
    \/ \E p \in Procs : DeleteItems(p)
    \/ \E p \in Procs : IndexItem(p)
    \/ \E p \in Procs : IndexItemFail(p)
    \/ \E p \in Procs : EmbedOk(p, Vectors)
    \/ \E p \in Procs : EmbedFail(p)
    \/ \E p \in Procs : InsertEmbedding(p)
    \/ \E p \in Procs : InsertEmbeddingFail(p)
    \/ \E p \in Procs : MarkProcessed(p)
    \/ \E p \in Procs : Respond(p)
    \/ \E p \in Procs : NextCrate(p)

InsertSpec == Init /\ [][InsertNext]_vars

\* get-doc requests for paths that are re-exported or not, over what a
\* batch has ingested
ReexportNext ==
    \/ \E p \in Procs, specs \in Batches : ReceiveBatch(p, specs)
    \/ \E p \in Procs : Check(p)
    \/ \E p \in Procs : Enter(p)
    \/ \E p \in Procs : FetchFail(p)
    \/ \E p \in Procs : FetchOk(p)
    \/ \E p \in Procs : DeleteItems(p)
    \/ \E p \in Procs : IndexItem(p)
    \/ \E p \in Procs : IndexItemFail(p)
    \/ \E p \in Procs : EmbedOk(p, GoodVectors)
    \/ \E p \in Procs : EmbedFail(p)
    \/ \E p \in Procs : InsertEmbedding(p)
    \/ \E p \in Procs : InsertEmbeddingFail(p)
    \/ \E p \in Procs : MarkProcessed(p)
    \/ \E p \in Procs : Respond(p)
    \/ \E p \in Procs : NextCrate(p)
    \/ \E p \in Procs, crateID \in Rows :
          \E path \in PathsUnder(<<crateID[1]>>, MaxSegments) : GetDoc(p, crateID, path)
    \/ \E p \in Procs : GetDocRespond(p)

ReexportSpec == Init /\ [][ReexportNext]_vars

\* everything but the record of the last library call
sysVars == <<daemon, elapsed, socket, restarts, faults, received, crates, items,
             reexports, embeddings, cas, hnsw, hnswFile, versionCache, addCrateGroup,
             pc, req, idx, toEmbed, metas, result, fetched, reported, prior,
             stream, searchOut, redirect>>

\* the preambles of ChunkSections: an item's path, or its path and signature
Preambles == {<<"path">>, <<"path", "\n", "sig">>}
\* the markdown bodies of up to MaxBlocks blocks
Bodies == UNION {[1..n -> Blocks] : n \in 0..MaxBlocks}

\* a direct call ChunkSections(preamble, markdown)
CallChunkSections(preamble, markdown) ==
    /\ call' = [fn |-> "ChunkSections", args |-> <<preamble, markdown>>,
                ret |-> ChunkSections(preamble, markdown)]
    /\ UNCHANGED sysVars

ChunkNext == \E preamble \in Preambles, markdown \in Bodies :
                CallChunkSections(preamble, markdown)

ChunkSpec == Init /\ [][ChunkNext]_vars

\* the use items given to CollectReexports: in the root module or in module
\* m, named m or t, a glob or not, with a target of this crate (0), of an
\* external crate (1, 2) or of a crate missing from the table (3)
UseItems ==
    [module : {<<"a">>, <<"a">> \o Sep \o <<"m">>},
     name : {<<"m">>, <<"t">>},
     isGlob : BOOLEAN,
     inPaths : BOOLEAN,
     crateID : 0..3,
     path : {<<"a">>, <<"a">> \o Sep \o <<"m">>, <<"a">> \o Sep \o <<"t">>,
             <<"b">> \o Sep \o <<"t">>}]

\* a direct call CollectReexports(crate, crateName) on a tree with the use
\* items uses
CallCollectReexports(crateName, uses) ==
    /\ call' = [fn |-> "CollectReexports", args |-> <<crateName, uses>>,
                ret |-> CollectReexportsOf(crateName, uses)]
    /\ UNCHANGED sysVars

CollectNext == \E crateName \in Names, us \in [1..MaxUses -> UseItems] :
                  CallCollectReexports(crateName, {us[k] : k \in 1..MaxUses})

CollectSpec == Init /\ [][CollectNext]_vars

(***************************************************************************)
(* Searcher.Search, the traversal of the backlinks. Content hashes are     *)
(* numbers; call.ret holds the locals of the loop while it runs.           *)
(***************************************************************************)
bfsMaxDepth == 3
bfsMaxQueueSize == 500

Nodes == 1..MaxNodes
\* backlink graphs: hash -> the hashes GetBacklinks returns for it
Chain == [h \in Nodes |-> IF h < MaxNodes THEN {h + 1} ELSE {}]
Ring == [h \in Nodes |-> {(h % MaxNodes) + 1}]
Complete == [h \in Nodes |-> Nodes]
NoLinks == [h \in Nodes |-> {}]
\* DB.GetBacklinks; a hash without rows, or a failing query, gives nothing
GetBacklinks(graph, h) == IF h \in DOMAIN graph THEN graph[h] ELSE {}

\* the searches: few direct hits on any of the graphs, or more direct hits
\* than bfsMaxQueueSize (limit*3 of them, limit has no upper bound) on
\* hashes without backlinks
Traversals ==
    ((0..MaxHits) \X {Chain, Ring, Complete, NoLinks})
        \cup {<<bfsMaxQueueSize + 1, NoLinks>>}

NoEntry == [contentHash |-> 0, depth |-> -1]

\* the rows of a result set in their order
RECURSIVE Ascending(_)
Ascending(S) ==
    IF S = {} THEN <<>>
    ELSE LET m == CHOOSE x \in S : \A y \in S : x <= y
         IN <<m>> \o Ascending(S \ {m})

\* the inner loop over the backlinks whose propagated score is above the
\* threshold: one not visited is marked and appended while the queue is
\* shorter than bfsMaxQueueSize
RECURSIVE Enqueue(_, _, _, _)
Enqueue(queue, visited, backlinks, depth) ==
    IF backlinks = <<>> THEN [queue |-> queue, visited |-> visited]
    ELSE IF Head(backlinks) \notin visited /\ Len(queue) < bfsMaxQueueSize
         THEN Enqueue(Append(queue, [contentHash |-> Head(backlinks), depth |-> depth]),
                      visited \cup {Head(backlinks)}, Tail(backlinks), depth)
         ELSE Enqueue(queue, visited, Tail(backlinks), depth)

\* the queue is filled with the direct results, all marked visited
StartBFS(n, graph) ==
    /\ call' = [fn |-> "bfs", args |-> <<n, graph>>,
                ret |-> [queue |-> [k \in 1..n |-> [contentHash |-> k, depth |-> 0]],
                         visited |-> 1..n,
                         expanded |-> NoEntry]]
    /\ UNCHANGED sysVars

\* an entry at bfsMaxDepth is popped and dropped
BfsSkip ==
    /\ call.fn = "bfs"
    /\ call.ret.queue # <<>>
    /\ Head(call.ret.queue).depth >= bfsMaxDepth
    /\ call' = [call EXCEPT !.ret.queue = Tail(@), !.ret.expanded = NoEntry]
    /\ UNCHANGED sysVars

\* an entry is popped and its backlinks are looked up; pass are those whose
\* propagated score is above the threshold
BfsExpand ==
    /\ call.fn = "bfs"
    /\ call.ret.queue # <<>>
    /\ Head(call.ret.queue).depth < bfsMaxDepth
    /\ \E pass \in SUBSET GetBacklinks(call.args[2], Head(call.ret.queue).contentHash) :
          LET next == Enqueue(Tail(call.ret.queue), call.ret.visited,
                              Ascending(pass), Head(call.ret.queue).depth + 1)
          IN call' = [call EXCEPT !.ret = [queue |-> next.queue,
                                           visited |-> next.visited,
                                           expanded |-> Head(call.ret.queue)]]
    /\ UNCHANGED sysVars

BfsNext ==
    \/ \E t \in Traversals : StartBFS(t[1], t[2])
    \/ BfsSkip
    \/ BfsExpand

BfsSpec == Init /\ [][BfsNext]_vars

(***************************************************************************)
(* Properties.                                                             *)
(***************************************************************************)
\* handler p is serving an add-crates request
Adding(p) == pc[p] \notin {"idle", "found", "cleared", "redirected", "loop"}
\* addCrateWork of p is between the delete and the processed mark
WritePhase == {"items", "embed", "insert", "mark"}

\* C1: of the add-crates requests for the same name and requested version in
\* progress at the same time, none of which found a processed row, at most
\* one issues the upstream fetch.
C1_OneFetchPerKey ==
    \A p, q \in Procs :
        (p # q /\ Adding(p) /\ Adding(q) /\ req[p] = req[q])
            => ~(fetched[p] /\ fetched[q])

\* C2: no two handlers are in the write phase of an ingestion of the same
\* crate row at the same time, whatever versions they requested.
C2_OneWriterPerRow ==
    \A p, q \in Procs :
        (p # q /\ pc[p] \in WritePhase /\ pc[q] \in WritePhase)
            => RowOf(req[p]) # RowOf(req[q])

\* C3: every item of a search response belongs to a crate row whose
\* processed_at is set.
C3_SearchOnlyProcessed ==
    \A p \in Procs :
        pc[p] = "found" =>
            \A k \in 1..Len(searchOut[p].results) :
                crates[searchOut[p].results[k].item.crate] = "processed"

\* C4: while a crate row is processed, no ingestion has its items deleted
\* and not yet all re-inserted.
C4_ProcessedIsComplete ==
    \A p \in Procs :
        pc[p] = "items" => crates[RowOf(req[p])] # "processed"

\* C5: while the daemon serves requests, the HNSW index holds node X exactly
\* when the Embeddings table holds row X.
C5_AnnMatchesRows == daemon = "running" => hnsw = RowIds

\* C6: a daemon start leaves every Embeddings row with a node in the HNSW
\* index, whether the index file was missing, stale or current.
C6_RebuiltOnStart ==
    [][(daemon = "down" /\ daemon' = "running") => RowIds' \subseteq hnsw']_vars

\* C7: an ingestion that stops in its write phase, by an error or by the end
\* of the process, leaves its crate row unprocessed.
C7_StoppedLeavesUnprocessed ==
    [][\A p \in Procs :
          (/\ pc[p] \in WritePhase
           /\ \/ pc'[p] = "respond" /\ result'[p].err
              \/ daemon' = "down")
          => crates'[RowOf(req[p])] # "processed"]_vars

\* C8: an add-crates call that repeats the request of the last successful
\* response reports the item count of that response.
C8_SameCountTwice ==
    \A p \in Procs :
        (pc[p] = "respond" /\ ~result[p].err /\ prior[p] # -1)
            => result[p].items = prior[p]

\* C9: the Embeddings table holds at most one row per content hash and
\* chunk index.
C9_OneRowPerChunk ==
    \A e, f \in embeddings : (e.hash = f.hash /\ e.idx = f.idx) => e = f

\* C10: the idle expiry does not fire while a request is being handled.
C10_NoExpiryWhileHandling ==
    daemon = "expiring" => \A p \in Procs : pc[p] = "idle"

ChecksNotFound(p) ==
    /\ pc[p] = "check"
    /\ pc'[p] # "check"
    /\ daemon' # "down"
    /\ req[p].ver = "latest"
    /\ versionCache[req[p].name] = "notFound"

\* a failed fetch for latest caches a not-found entry, and a latest request
\* that finds the entry returns the error without fetching
NegativeEntryServed ==
    \A p \in Procs :
        /\ (pc[p] = "fetch" /\ pc'[p] = "respond" /\ result'[p].err
                /\ req[p].ver = "latest")
              => versionCache'[req[p].name] = "notFound"
        /\ ChecksNotFound(p)
              => (pc'[p] = "respond" /\ result'[p].err /\ ~fetched'[p])

\* C12: a failed fetch for latest caches a not-found entry; the entry stays
\* until it expires or the cache is cleared, and every latest request that
\* arrives meanwhile returns the cached error without fetching.
C12_NegativeUntilExpiry ==
    [][/\ NegativeEntryServed
       /\ \A n \in Names :
             versionCache[n] = "notFound"
                => versionCache'[n] \in {"notFound", "none"}]_vars

\* C12 as amended: the entry stays until it expires, the cache is cleared or
\* a fetch for the name succeeds and caches the resolved version.
C12_NegativeUntilReplaced ==
    [][/\ NegativeEntryServed
       /\ \A n \in Names :
             versionCache[n] = "notFound"
                => \/ versionCache'[n] \in {"notFound", "none"}
                   \/ \E p \in Procs :
                         /\ pc[p] = "fetch"
                         /\ req[p].name = n
                         /\ pc'[p] \in {"delete", "respond"}
                         /\ ~result'[p].err
                         /\ versionCache'[n] = CrateVersion(n, req[p].ver)]_vars

\* a latest request has just been answered from a not-found entry
C12_Witness ==
    \E p \in Procs :
        /\ pc[p] = "respond"
        /\ req[p].ver = "latest"
        /\ result[p].err
        /\ ~fetched[p]
        /\ versionCache[req[p].name] = "notFound"

\* C13: a clear-cache request leaves the version cache without any entry,
\* resolved or not-found, and leaves the crate rows, items, re-exports,
\* embeddings, the CAS, the HNSW index and its file as they were.
C13_ClearCacheFrame ==
    [][\A p \in Procs :
          (pc[p] = "idle" /\ pc'[p] = "cleared")
             => /\ versionCache' = [n \in Names |-> "none"]
                /\ UNCHANGED <<crates, items, reexports, embeddings, cas,
                               hnsw, hnswFile>>]_vars

\* a clear-cache request has been served over a catalog that holds a
\* processed crate and its embeddings
C13_Witness ==
    \E p \in Procs :
        /\ pc[p] = "cleared"
        /\ versionCache = [n \in Names |-> "none"]
        /\ \E row \in Rows : crates[row] = "processed"
        /\ embeddings # {}

\* C14: an add-crates stream whose client stays connected ends only after
\* the last crate's result line, with one result line per crate of the
\* batch, in request order, before it.
C14_OneLinePerCrate ==
    [][\A p \in Procs :
          (stream[p].crates # <<>> /\ stream[p].cut = -1
              /\ stream'[p].crates = <<>>)
          => /\ pc[p] = "respond"
             /\ Len(stream[p].lines) + 1 = Len(stream[p].crates)
             /\ req[p] = stream[p].crates[Len(stream[p].crates)]
             /\ \A k \in 1..Len(stream[p].lines) :
                   stream[p].lines[k].spec = stream[p].crates[k]]_vars

\* addCrateWork of p is running
Ingesting == {"fetch", "delete"} \cup WritePhase

\* C15: after the client of an add-crates stream has disconnected, no
\* ingestion runs for a crate of the batch that had not been started then.
C15_NoIngestionAfterDisconnect ==
    \A p \in Procs :
        (stream[p].cut # -1 /\ pc[p] \in Ingesting)
            => Started(p) <= stream[p].cut

\* a handler takes a search request and computes its response
Searches(p) == pc[p] = "idle" /\ pc'[p] = "found"

\* the crate filter names a crate row
Resolves(names) == \E row \in Rows : row[1] \in names /\ crates[row] # "absent"

\* C16: a search whose crate filter is not empty and names no known crate
\* returns zero results.
C16_UnknownFilterNoResults ==
    [][\A p \in Procs :
          (Searches(p) /\ searchOut'[p].names # {} /\ ~Resolves(searchOut'[p].names))
              => searchOut'[p].results = <<>>]_vars

\* C17: a search whose crate filter names a known crate returns only items
\* of crates named in the filter, whichever crates share their content hash.
C17_ResultsWithinFilter ==
    [][\A p \in Procs :
          (Searches(p) /\ Resolves(searchOut'[p].names))
              => \A k \in 1..Len(searchOut'[p].results) :
                    searchOut'[p].results[k].item.crate[1] \in searchOut'[p].names]_vars

C17_Witness ==
    \E p \in Procs :
        /\ pc[p] = "found"
        /\ searchOut[p].crateIDs # {}
        /\ \E k \in 1..Len(searchOut[p].results), j \in items :
              /\ j.hash = searchOut[p].results[k].item.hash
              /\ j.crate[1] \notin searchOut[p].names

\* the content hashes a search has as resolved candidates: near
\* the query in the index, with an item (of the filter's crates, if any)
ResolvedHashes(out) ==
    {h \in Hashes :
        /\ out.sim[h] > 0
        /\ \E e \in embeddings : e.hash = h /\ e.id \in hnsw
        /\ \E i \in items : i.hash = h /\ (out.crateIDs = {} \/ i.crate \in out.crateIDs)}

\* C18: when the rerank provider fails the search answers with the resolved
\* candidates by descending vector score, at most limit of them and the best
\* ones, each with its vector score.
C18_RerankFallback ==
    [][\A p \in Procs :
          (Searches(p) /\ searchOut'[p].rerank = "failed")
          => LET out == searchOut'[p]
                 n == Cardinality(ResolvedHashes(out))
                 shown == {out.results[k].item.hash : k \in 1..Len(out.results)}
             IN /\ Len(out.results) = IF n > out.limit THEN out.limit ELSE n
                /\ shown \subseteq ResolvedHashes(out)
                /\ Cardinality(shown) = Len(out.results)
                /\ \A k \in 1..Len(out.results) :
                      /\ out.results[k].score = out.sim[out.results[k].item.hash]
                      /\ out.results[k].item \in items
                      /\ \A j \in 1..Len(out.results) :
                            k < j => out.results[k].score >= out.results[j].score
                      /\ \A h \in ResolvedHashes(out) \ shown :
                            out.sim[h] <= out.results[k].score]_vars

C18_Witness ==
    \E p \in Procs :
        /\ pc[p] = "found"
        /\ searchOut[p].rerank = "failed"
        /\ Len(searchOut[p].results) = searchOut[p].limit
        /\ \E h \in Hashes :
              /\ searchOut[p].sim[h] > 0
              /\ \E i \in items : i.hash = h
              /\ \E e \in embeddings : e.hash = h /\ e.id \in hnsw
              /\ \A k \in 1..Len(searchOut[p].results) :
                    searchOut[p].results[k].item.hash # h

\* C19: DB.InsertEmbedding given a vector with a NaN or an infinity, or of a
\* dimension other than embeddingDim, adds no Embeddings row and no node of
\* the HNSW index.
C19_BadVectorRejected ==
    [][\A p \in Procs :
          (/\ pc[p] = "insert"
           /\ idx'[p] = idx[p] + 1
           /\ \/ metas[p][idx[p]].vec.len # embeddingDim
              \/ metas[p][idx[p]].vec.first \in {"NaN", "+Inf", "-Inf"})
          => embeddings' = embeddings /\ hnsw' = hnsw]_vars

C19_Witness ==
    \E p \in Procs :
        /\ pc[p] \in {"insert", "mark"}
        /\ idx[p] > 1
        /\ metas[p][idx[p] - 1].vec.len = embeddingDim
        /\ metas[p][idx[p] - 1].vec.first = "NaN"
        /\ \A e \in embeddings :
              e.hash # metas[p][idx[p] - 1].hash \/ e.idx # metas[p][idx[p] - 1].idx

\* C20: resolving a path against the re-exports of a crate finds the rows
\* whose local prefix is the path or is followed in the path by "::", and
\* answers from the one with the longest prefix; with no such row nothing
\* is found.
C20_LongestPrefix ==
    [][\A p \in Procs :
          (pc[p] = "idle" /\ pc'[p] = "redirected")
          => LET path == redirect'[p].path
                 out == redirect'[p].out
                 matching == {x \in reexports :
                                /\ x.crate = redirect'[p].crate
                                /\ \/ x.local = path
                                   \/ /\ Len(path) >= Len(x.local) + 2
                                      /\ SubSeq(path, 1, Len(x.local) + 2) =
                                             x.local \o <<":", ":">>}
             IN IF matching = {} THEN ~out.found
                ELSE /\ out.found
                     /\ \E x \in matching :
                           /\ \A y \in matching : Len(y.local) <= Len(x.local)
                           /\ out.crate = x.srcCrate
                           /\ out.path = x.srcPrefix \o
                                 SubSeq(path, Len(x.local) + 1, Len(path))]_vars

\* C21: whenever cas.Write returns the hash of a content, cas.Read of that
\* hash returns the content; and a write of a content whose file is there
\* leaves the file as it is.
C21_RoundTrip ==
    [][\A p \in Procs :
          (pc[p] = "items" /\ idx'[p] = idx[p] + 1 /\ faults' = faults)
          => LET b == Parse(req[p].name)[idx[p]].docs
             IN /\ Read(cas', Sum256(b)) = [err |-> FALSE, data |-> b]
                /\ cas[Sum256(b)].exists => cas'[Sum256(b)] = cas[Sum256(b)]]_vars

\* a sequence begins with another
HasPrefix(text, prefix) ==
    Len(text) >= Len(prefix) /\ SubSeq(text, 1, Len(prefix)) = prefix

\* the chunks ChunkSections returned are numbered 0..n-1 in their order
Sequential(chunks) == \A k \in 1..Len(chunks) : chunks[k].Index = k - 1

\* C22: the chunks of ChunkSections(p, body) are numbered 0..n-1 in their
\* order; for an empty body there is exactly one chunk, with the text p; for
\* every other body each chunk's text begins with p followed by a blank line.
C22_ChunksOfBody ==
    call.fn = "ChunkSections" =>
        /\ Sequential(call.ret)
        /\ IF call.args[2] = <<>>
           THEN call.ret = <<[Text |-> call.args[1], Index |-> 0]>>
           ELSE \A k \in 1..Len(call.ret) :
                   HasPrefix(call.ret[k].Text, call.args[1] \o <<"\n\n">>)

\* C22, amended: as C22, with the one chunk of text p for every body that is
\* empty once the white space around it is trimmed.
C22_ChunksOfTrimmedBody ==
    call.fn = "ChunkSections" =>
        /\ Sequential(call.ret)
        /\ Len(call.ret) >= 1
        /\ IF \A k \in 1..Len(call.args[2]) : call.args[2][k] = "blank"
           THEN call.ret = <<[Text |-> call.args[1], Index |-> 0]>>
           ELSE \A k \in 1..Len(call.ret) :
                   HasPrefix(call.ret[k].Text, call.args[1] \o <<"\n\n">>)

C22_Witness ==
    /\ call.fn = "ChunkSections"
    /\ Len(call.ret) >= 3
    /\ \E k \in 1..Len(call.ret) : call.ret[k].Text[Len(call.ret[k].Text)] = "fence"

\* C23: a step that writes a resolved version of a crate into the version
\* cache leaves that crate version processed: the version is cached at
\* finalize and not before, so that an ingestion that fails after the
\* resolution leaves no resolved entry.
C23_CachedAtFinalize ==
    [][\A n \in Names :
          (versionCache'[n] \in Versions /\ versionCache'[n] # versionCache[n])
          => crates'[<<n, versionCache'[n]>>] = "processed"]_vars

\* the embedding request of p's ingestion fails in this step
EmbeddingFails(p) ==
    /\ pc[p] = "embed" /\ pc'[p] # "embed"
    /\ faults' = faults + 1 /\ daemon' = daemon

\* C24: when the embedding of an ingestion fails, the ingestion returns an
\* error at once, without having inserted an embedding row or an ANN node
\* and without marking the crate processed.
C24_EmbedFailureAborts ==
    [][\A p \in Procs :
          EmbeddingFails(p)
          => /\ pc'[p] = "respond" /\ result'[p].err
             /\ embeddings' = embeddings /\ hnsw' = hnsw
             /\ crates' = crates]_vars

C24_Witness ==
    \E p \in Procs :
        /\ pc[p] = "respond" /\ result[p].err /\ fetched[p]
        /\ faults = 1
        /\ crates[RowOf(req[p])] = "fetched"
        /\ ~ \E e \in embeddings : e.hash \in {i.hash : i \in {j \in items : j.crate = RowOf(req[p])}}

C26_PathUniqueInCrate ==
    \A i, j \in items : (i.crate = j.crate /\ i.path = j.path) => i = j

\* C27: no re-export that CollectReexports returns for a crate, and so none
\* the ingestion stores, has the crate itself as source crate and its local
\* prefix as source prefix, whether it comes from a glob or from a named use.
C27_NoIdentityReexport ==
    call.fn = "CollectReexports" =>
        \A x \in call.ret : ~(x.srcCrate = call.args[1] /\ x.srcPrefix = x.local)

C27_Witness ==
    /\ call.fn = "CollectReexports"
    /\ call.args[1] = "a"
    /\ \E use \in call.args[2] :
          /\ use.isGlob /\ use.inPaths /\ use.module = use.path
          /\ use.crateID = 2
    /\ call.ret = {}

\* C28: the queue of the backlink traversal never holds more than
\* bfsMaxQueueSize entries, whatever the number of direct hits, and no entry
\* at depth bfsMaxDepth or more is expanded.
C28_TraversalCaps ==
    call.fn = "bfs" =>
        /\ Len(call.ret.queue) <= bfsMaxQueueSize
        /\ call.ret.expanded.depth < bfsMaxDepth

\* the chunk indexes of the body with a content hash
ChunkIndexes(hash) ==
    LET content == CHOOSE c \in Contents : Sum256(c) = hash
        chunks == ChunkSections(<<"path">>, Markdown(content))
    IN {chunks[k].Index : k \in 1..Len(chunks)}

\* an ingestion is in its loop of inserts with a vector of the hash to come
Inserting(hash) ==
    \E p \in Procs :
        /\ pc[p] = "insert"
        /\ \E k \in idx[p]..Len(metas[p]) : metas[p][k].hash = hash

\* C29: a content hash with any Embeddings row, and no ingestion still
\* inserting its vectors, has a row for each of its chunks, so that
\* HasEmbeddings is true only of hashes that are embedded in full.
C29_EmbeddedInFull ==
    \A h \in Hashes :
        (HasEmbeddings(h) /\ ~Inserting(h))
        => \A k \in ChunkIndexes(h) : \E e \in embeddings : e.hash = h /\ e.idx = k

\* handler p leaves the catalog check of a request for an explicit version
\* while the version cache holds a not-found entry for the name
ChecksExplicit(p) ==
    /\ pc[p] = "check"
    /\ pc'[p] # "check"
    /\ daemon' # "down"
    /\ req[p].ver # "latest"
    /\ versionCache[req[p].name] = "notFound"

\* C30: a request for an explicit version of a name with a not-found entry
\* in the version cache is not answered from that entry: it is answered from
\* the catalog when that version is processed, and goes on to the fetch
\* otherwise.
C30_NegativeEntryLatestOnly ==
    [][\A p \in Procs :
          ChecksExplicit(p)
          => IF crates[<<req[p].name, req[p].ver>>] = "processed"
             THEN pc'[p] = "respond" /\ ~result'[p].err
             ELSE pc'[p] = "enter"]_vars

\* a request for an explicit version is at its fetch while the name has a
\* not-found entry
C30_Witness ==
    \E p \in Procs :
        /\ pc[p] = "fetch"
        /\ req[p].ver # "latest"
        /\ versionCache[req[p].name] = "notFound"

====
